---- MODULE Spec2Model ----
(***************************************************************************)
(* Pick-and-select core of SceneContainer.vue: the pointer sample kept in  *)
(* `mouse`, the ray cast against scene.children, the selection committed   *)
(* by onClick, the cursor set by checkIntersection, the camera kept by     *)
(* initScene / handleResize / animate, and the mount / unmount lifecycle.  *)
(*                                                                         *)
(* Numbers are exact rationals <<n, d>> in lowest terms (d > 0); the       *)
(* rounding of IEEE doubles is not modelled.  The geometry of THREE's      *)
(* ray/mesh intersection is abstracted to a grid of ray directions         *)
(* (column, level or downward) per camera view, with integer distances.    *)
(*                                                                         *)
(* container.value is typed HTMLDivElement | null and every handler but    *)
(* onClick guards against a missing container or camera, so the mount      *)
(* with the ref left null is part of the model.                            *)
(***************************************************************************)
EXTENDS Integers, Sequences, FiniteSets, TLC

\* Bounds of the model.
MaxOffset == 1      \* the container's left edge lies 0..MaxOffset pixels from the window's
MaxFrames == 2      \* at most MaxFrames calls of requestAnimationFrame

\* Window sizes <<innerWidth, innerHeight>> the host may take.
WindowSizes == {<<1, 1>>, <<2, 1>>}

VARIABLES
    phase,          \* "setup" | "mounted" | "unmounted"  (component lifecycle)
    container,      \* container.value # null
    win,            \* <<window.innerWidth, window.innerHeight>>
    rect,           \* container.value.getBoundingClientRect()
    resizePending,  \* a resize event is queued for the window's listeners
    listeners,      \* event types this component is subscribed to on window
    scene,          \* scene.children, in insertion order (<<>> while scene is undefined)
    camera,         \* [defined, aspect, view]
    renderer,       \* [defined, width, height, disposed]
    animationId,    \* last handle returned by requestAnimationFrame (0: undefined)
    pendingFrames,  \* handles of the animation-frame callbacks still pending
    mouse,          \* the Vector2 `mouse`: [x, y], rationals
    selectedObject, \* selectedObject.value
    cursor,         \* document.body.style.cursor
    lastEvent       \* the callback most recently dispatched to this component: its
                    \* type, the event's position, whether it threw, the type
                    \* of the callback it followed, and selectedObject.value
                    \* as the callback found it

vars == <<phase, container, win, rect, resizePending, listeners, scene, camera,
          renderer, animationId, pendingFrames, mouse, selectedObject,
          cursor, lastEvent>>

-----------------------------------------------------------------------------
\* Rational arithmetic (JS numbers at lines 32, 68, 69, 170).

Abs(n) == IF n < 0 THEN -n ELSE n

RECURSIVE GCD(_, _)
GCD(a, b) == IF b = 0 THEN a ELSE GCD(b, a % b)

\* n/d in lowest terms, d > 0.
Frac(n, d) == LET g == GCD(Abs(n), d) IN <<n \div g, d \div g>>

FracMul(p, q) == Frac(p[1] * q[1], p[2] * q[2])

\* Nearest integer to a rational (halves round up).
Round(p) == (2 * p[1] + p[2]) \div (2 * p[2])

Clamp(n, lo, hi) == IF n < lo THEN lo ELSE IF n > hi THEN hi ELSE n

Sign(n) == IF n < 0 THEN -1 ELSE IF n > 0 THEN 1 ELSE 0

-----------------------------------------------------------------------------
\* Values.

Null == [null |-> TRUE]                 \* JS null
EmptyUserData == [k \in {} |-> TRUE]    \* Object3D.userData default: {}

\* The InteractableObject templates (id and name; the other fields are presentation).
objectsData ==
    << [id |-> "table", name |-> "Table"],
       [id |-> "chair", name |-> "Chair"],
       [id |-> "lamp",  name |-> "Lamp"],
       [id |-> "plant", name |-> "Plant"] >>

\* mesh.userData = { ...obj, isInteractable: true }
InteractableUserData(obj) ==
    [id |-> obj.id, name |-> obj.name, isInteractable |-> TRUE]

Light(n) == [name |-> n, isMesh |-> FALSE, userData |-> EmptyUserData]
StructuralMesh(n) == [name |-> n, isMesh |-> TRUE, userData |-> EmptyUserData]
ObjectMesh(obj) == [name |-> obj.id, isMesh |-> TRUE, userData |-> InteractableUserData(obj)]

\* scene.add(...) calls of createRoom, in order.
createRoom == << StructuralMesh("floor"), StructuralMesh("backWall"), StructuralMesh("leftWall") >>

\* scene.add(mesh) for each entry of objectsData, in order.
populateObjects == [i \in 1..Len(objectsData) |-> ObjectMesh(objectsData[i])]

\* scene.children once initScene has run.
SceneChildren ==
    << Light("ambientLight"), Light("directionalLight") >> \o createRoom \o populateObjects

StructuralNames == {"floor", "backWall", "leftWall"}

UndefinedCamera == [defined |-> FALSE, aspect |-> <<0, 1>>, view |-> "none"]
UndefinedRenderer == [defined |-> FALSE, width |-> 0, height |-> 0, disposed |-> FALSE]

\* Camera poses OrbitControls can bring the camera to: the initial pose in front
\* of the room, and a pose orbited and dollied out beyond the left wall.
Views == {"front", "left"}

NoEvent ==
    [type |-> "none", x |-> 0, y |-> 0, drag |-> FALSE, threw |-> FALSE,
     after |-> "none", before |-> Null]

-----------------------------------------------------------------------------
\* The pick: raycaster.setFromCamera + intersectObjects + filter (lines 87-91).

\* The ray raycaster.setFromCamera(coords, camera) builds: the camera's pose, and
\* the direction through the normalized point, whose horizontal slope is
\* coords.x * aspect (times the constant tan(fov/2)) and whose vertical slope is
\* coords.y.  Directions are bucketed into columns -2..2, and into the rays that
\* run level or upwards (coords.y >= 0) and those that run downwards.
setFromCamera(coords, cam) ==
    [view |-> cam.view,
     col  |-> Clamp(Round(FracMul(coords.x, cam.aspect)), -2, 2),
     down |-> Sign(coords.y[1]) < 0]

\* Mesh.raycast for the meshes of createRoom and populateObjects: the distance
\* from the ray origin to the mesh along the ray, 0 when the ray misses it.
\* From the front the chair stands before the table; from beyond the left wall
\* the (double-sided) wall is nearer than every object behind it.
MeshDistance(name, ray) ==
    IF ray.view = "front"
    THEN CASE name = "floor"    -> IF ray.down THEN (IF ray.col = 0 THEN 4 ELSE 3) ELSE 0
           [] name = "backWall" -> IF ~ray.down /\ ray.col >= -1 THEN 10 ELSE 0
           [] name = "leftWall" -> IF ~ray.down /\ ray.col = -2 THEN 8 ELSE 0
           [] name = "table"    -> IF ~ray.down /\ ray.col \in {0, 1} THEN 4 ELSE 0
           [] name = "chair"    -> IF ray.col = 0 THEN 3 ELSE 0
           [] name = "lamp"     -> IF ~ray.down /\ ray.col = 1 THEN 5 ELSE 0
           [] name = "plant"    -> IF ~ray.down /\ ray.col = -1 THEN 7 ELSE 0
           [] OTHER             -> 0
    ELSE CASE name = "floor"    -> IF ray.down /\ ray.col \in -1..1 THEN 5 ELSE 0
           [] name = "leftWall" -> IF ray.col \in -1..1 THEN 2 ELSE 0
           [] name = "table"    -> IF ~ray.down /\ ray.col = 0 THEN 6 ELSE 0
           [] name = "chair"    -> IF ~ray.down /\ ray.col = 1 THEN 6 ELSE 0
           [] name = "lamp"     -> IF ~ray.down /\ ray.col = 0 THEN 7 ELSE 0
           [] name = "plant"    -> IF ~ray.down /\ ray.col = -1 THEN 4 ELSE 0
           [] OTHER             -> 0

\* intersectObject on each child in turn: lights have no geometry (Object3D.raycast
\* is empty); a mesh the ray meets pushes one intersection.
RECURSIVE Collect(_, _)
Collect(children, ray) ==
    IF children = <<>> THEN <<>>
    ELSE LET c == Head(children)
             d == IF c.isMesh THEN MeshDistance(c.name, ray) ELSE 0
         IN  (IF d > 0 THEN << [distance |-> d, object |-> c] >> ELSE <<>>)
                 \o Collect(Tail(children), ray)

\* Insert into a list sorted by ascending distance, after equal distances.
RECURSIVE InsertByDistance(_, _)
InsertByDistance(i, sorted) ==
    IF sorted = <<>> THEN << i >>
    ELSE IF i.distance < Head(sorted).distance THEN << i >> \o sorted
    ELSE << Head(sorted) >> \o InsertByDistance(i, Tail(sorted))

\* intersects.sort(ascSort): ascending distance, stable.
RECURSIVE SortByDistance(_)
SortByDistance(list) ==
    IF list = <<>> THEN <<>>
    ELSE InsertByDistance(list[Len(list)], SortByDistance(SubSeq(list, 1, Len(list) - 1)))

\* Variant of intersectObjects: the hits are left in the order the children
\* were added to the scene (the sort is missing).
intersectObjectsUnsorted(children, ray) == Collect(children, ray)

\* raycaster.intersectObjects(scene.children)
intersectObjects(children, ray) == SortByDistance(Collect(children, ray))

\* intersect.object.userData?.isInteractable
IsInteractable(userData) ==
    "isInteractable" \in DOMAIN userData /\ userData.isInteractable

\* Variant of getIntersects: the isInteractable filter is missing.
getIntersectsUnfiltered(coords, cam, children) ==
    intersectObjects(children, setFromCamera(coords, cam))

\* getIntersects(), for a constructed camera and scene.
\* The objects getIntersects hands to the raycaster: all of scene.children.
Candidates(children) == children

getIntersects(coords, cam, children) ==
    SelectSeq(intersectObjects(Candidates(children), setFromCamera(coords, cam)),
              LAMBDA i : IsInteractable(i.object.userData))

\* Variant of PointerSample: the horizontal coordinate is pre-scaled by the
\* camera's aspect ratio.
PointerSampleAspect(clientX, clientY, r) ==
    [x |-> FracMul(Frac(2 * (clientX - r.left) - r.width, r.width),
                   IF camera.defined THEN camera.aspect ELSE <<1, 1>>),
     y |-> Frac(r.height - 2 * (clientY - r.top), r.height)]

\* The pixel-to-normalized conversion of onPointerMove (lines 68-69).
PointerSample(clientX, clientY, r) ==
    [x |-> Frac(2 * (clientX - r.left) - r.width, r.width),
     y |-> Frac(r.height - 2 * (clientY - r.top), r.height)]

\* Variant of ClickSelection: a hit is committed only while nothing is selected.
ClickSelectionSticky(intersects, current) ==
    IF Len(intersects) > 0
    THEN (IF current = Null THEN intersects[1].object.userData ELSE current)
    ELSE Null

\* Variant of ClickSelection: the else branch is missing, a miss deselects nothing.
ClickSelectionNoDeselect(intersects, current) ==
    IF Len(intersects) > 0 THEN intersects[1].object.userData ELSE current

\* Variant of ClickSelection: clicking the selected object toggles it off.
ClickSelectionToggle(intersects, current) ==
    IF Len(intersects) > 0
    THEN (IF intersects[1].object.userData = current THEN Null
          ELSE intersects[1].object.userData)
    ELSE Null

\* Variant of ClickSelection: the intersected mesh is stored, not its userData.
ClickSelectionObject(intersects, current) ==
    IF Len(intersects) > 0 THEN intersects[1].object ELSE Null

\* What onClick writes to selectedObject.value (lines 76-84).
ClickSelection(intersects, current) ==
    IF Len(intersects) > 0
    THEN LET intersect == intersects[1]
         IN  intersect.object.userData      \* an object and its userData are always truthy
    ELSE Null

\* Variant of HoverCursor: the test is length >= 0.
HoverCursorAlways(intersects) ==
    IF Len(intersects) >= 0 THEN "pointer" ELSE "default"

\* What checkIntersection writes to document.body.style.cursor (lines 95-99).
HoverCursor(intersects) ==
    IF Len(intersects) > 0 THEN "pointer" ELSE "default"

-----------------------------------------------------------------------------
\* Events the host delivers.

Event(t, x, y, d, th) ==
    [type |-> t, x |-> x, y |-> y, drag |-> d, threw |-> th,
     after |-> lastEvent.type, before |-> selectedObject]

\* Pointer positions (clientX, clientY) inside the window.
ClientXs == 0..win[1]
ClientYs == 0..win[2]

\* The container is a block of width 100% and height 100vh (lines 202-206).
ContainerRect(left, size) ==
    [left |-> left, top |-> 0, width |-> size[1], height |-> size[2]]

-----------------------------------------------------------------------------
\* State after the module body of <script setup> has run (lines 16-22, 61-63).
Init ==
    /\ phase = "setup"
    /\ container = FALSE
    /\ win \in WindowSizes
    /\ \E left \in 0..MaxOffset : rect = ContainerRect(left, win)
    /\ resizePending = FALSE
    /\ listeners = {}
    /\ scene = <<>>
    /\ camera = UndefinedCamera
    /\ renderer = UndefinedRenderer
    /\ animationId = 0
    /\ pendingFrames = {}
    /\ mouse = [x |-> <<0, 1>>, y |-> <<0, 1>>]
    /\ selectedObject = Null
    /\ cursor = ""
    /\ lastEvent = NoEvent

\* The template ref is bound (or left null) and the onMounted callback runs:
\* initScene(), then the three addEventListener calls.
Mount(bound) ==
    /\ phase = "setup"
    /\ phase' = "mounted"
    /\ container' = bound
    /\ IF bound
       THEN \* initScene past its guard (lines 27-58); animate() requests the first frame
            /\ scene' = SceneChildren
            /\ camera' = [defined |-> TRUE, aspect |-> Frac(win[1], win[2]), view |-> "front"]
            /\ renderer' = [defined |-> TRUE, width |-> win[1], height |-> win[2],
                            disposed |-> FALSE]
            /\ animationId' = animationId + 1
            /\ pendingFrames' = pendingFrames \cup {animationId + 1}
       ELSE \* initScene returns at line 25
            UNCHANGED <<scene, camera, renderer, animationId, pendingFrames>>
    /\ listeners' = {"resize", "mousemove", "click"}
    /\ UNCHANGED <<win, rect, resizePending, mouse, selectedObject,
                   cursor, lastEvent>>

\* The host resizes the window; the resize event is queued for the listeners.
WindowResize(size) ==
    /\ phase = "mounted"
    /\ size # win
    /\ win' = size
    /\ rect' = ContainerRect(rect.left, size)
    /\ resizePending' = ("resize" \in listeners)
    /\ UNCHANGED <<phase, container, listeners, scene, camera, renderer, animationId,
                   pendingFrames, mouse, selectedObject, cursor, lastEvent>>

\* The layout moves the container inside the window; no event is delivered.
SurfaceMoved(left) ==
    /\ phase = "mounted"
    /\ left # rect.left
    /\ rect' = [rect EXCEPT !.left = left]
    /\ UNCHANGED <<phase, container, win, resizePending, listeners, scene, camera,
                   renderer, animationId, pendingFrames, mouse, selectedObject,
                   cursor, lastEvent>>

\* Variant of handleResize: the renderer is resized, the camera's aspect is not.
handleResizeRendererOnly ==
    /\ "resize" \in listeners
    /\ resizePending
    /\ resizePending' = FALSE
    /\ IF ~camera.defined \/ ~renderer.defined
       THEN UNCHANGED renderer
       ELSE renderer' = [renderer EXCEPT !.width = win[1], !.height = win[2]]
    /\ lastEvent' = Event("resize", 0, 0, FALSE, FALSE)
    /\ UNCHANGED <<phase, container, win, rect, listeners, scene, camera, animationId,
                   pendingFrames, mouse, selectedObject, cursor>>

handleResize ==
    /\ "resize" \in listeners
    /\ resizePending
    /\ resizePending' = FALSE
    /\ IF ~camera.defined \/ ~renderer.defined
       THEN UNCHANGED <<camera, renderer>>
       ELSE /\ camera' = [camera EXCEPT !.aspect = Frac(win[1], win[2])]
            /\ renderer' = [renderer EXCEPT !.width = win[1], !.height = win[2]]
    /\ lastEvent' = Event("resize", 0, 0, FALSE, FALSE)
    /\ UNCHANGED <<phase, container, win, rect, listeners, scene, animationId,
                   pendingFrames, mouse, selectedObject, cursor>>

\* Variant of onPointerMove: hovering commits the hit as the selection.
onPointerMoveSelecting(clientX, clientY) ==
    /\ "mousemove" \in listeners
    /\ container
    /\ camera.defined
    /\ mouse' = PointerSample(clientX, clientY, rect)
    /\ cursor' = HoverCursor(getIntersects(mouse', camera, scene))
    /\ selectedObject' = ClickSelection(getIntersects(mouse', camera, scene), selectedObject)
    /\ lastEvent' = Event("mousemove", clientX, clientY, FALSE, FALSE)
    /\ UNCHANGED <<phase, container, win, rect, resizePending, listeners, scene, camera,
                   renderer, animationId, pendingFrames>>

onPointerMove(clientX, clientY) ==
    /\ "mousemove" \in listeners
    /\ IF ~container
       THEN /\ UNCHANGED <<mouse, cursor>>
            /\ lastEvent' = Event("mousemove", clientX, clientY, FALSE, FALSE)
       ELSE /\ mouse' = PointerSample(clientX, clientY, rect)
            /\ IF camera.defined
               THEN \* checkIntersection()
                    /\ cursor' = HoverCursor(getIntersects(mouse', camera, scene))
                    /\ lastEvent' = Event("mousemove", clientX, clientY, FALSE, FALSE)
               ELSE \* setFromCamera reads a property of undefined: TypeError
                    /\ UNCHANGED cursor
                    /\ lastEvent' = Event("mousemove", clientX, clientY, FALSE, TRUE)
    /\ UNCHANGED <<phase, container, win, rect, resizePending, listeners, scene, camera,
                   renderer, animationId, pendingFrames, selectedObject>>

\* Variant of onClick: the pick is made with a sample other than the one the
\* last pointer-move stored (the click's own position, converted afresh).
onClickOwnSample(clientX, clientY, drag) ==
    /\ "click" \in listeners
    /\ camera.defined
    /\ selectedObject' =
           ClickSelection(getIntersects(PointerSample(clientX, clientY, rect), camera, scene),
                          selectedObject)
    /\ lastEvent' = Event("click", clientX, clientY, drag, FALSE)
    /\ UNCHANGED <<phase, container, win, rect, resizePending, listeners, scene, camera,
                   renderer, animationId, pendingFrames, mouse, cursor>>

\* The click handler takes no argument: the event's position (and whether the
\* click ends an orbit drag) reaches lastEvent only.
onClick(clientX, clientY, drag) ==
    /\ "click" \in listeners
    /\ IF camera.defined
       THEN /\ selectedObject' =
                   ClickSelection(getIntersects(mouse, camera, scene), selectedObject)
            /\ lastEvent' = Event("click", clientX, clientY, drag, FALSE)
       ELSE \* setFromCamera reads a property of undefined: TypeError
            /\ UNCHANGED selectedObject
            /\ lastEvent' = Event("click", clientX, clientY, drag, TRUE)
    /\ UNCHANGED <<phase, container, win, rect, resizePending, listeners, scene, camera,
                   renderer, animationId, pendingFrames, mouse, cursor>>

\* A pending animation-frame callback runs: animate() requests its successor,
\* then controls.update() moves the camera to the pose the orbit input and the
\* damping give, then the frame is rendered.
\* Variant of animate: the handle of the requested frame is not stored.
animateHandleDropped(id, view) ==
    /\ id \in pendingFrames
    /\ animationId < MaxFrames
    /\ \E handle \in 1..MaxFrames :
          /\ handle \notin pendingFrames
          /\ pendingFrames' = (pendingFrames \ {id}) \cup {handle}
    /\ camera' = [camera EXCEPT !.view = view]
    /\ lastEvent' = Event("frame", 0, 0, FALSE, FALSE)
    /\ UNCHANGED <<phase, container, win, rect, resizePending, listeners, scene,
                   renderer, animationId, mouse, selectedObject, cursor>>

animate(id, view) ==
    /\ id \in pendingFrames
    /\ animationId < MaxFrames
    /\ animationId' = animationId + 1
    /\ pendingFrames' = (pendingFrames \ {id}) \cup {animationId + 1}
    /\ camera' = [camera EXCEPT !.view = view]
    /\ lastEvent' = Event("frame", 0, 0, FALSE, FALSE)
    /\ UNCHANGED <<phase, container, win, rect, resizePending, listeners, scene,
                   renderer, mouse, selectedObject, cursor>>

\* The onUnmounted callback; the template ref is reset to null.
\* Variant of onUnmounted: the pending animation frame is not cancelled.
UnmountNoCancel ==
    /\ phase = "mounted"
    /\ phase' = "unmounted"
    /\ container' = FALSE
    /\ listeners' = {}
    /\ resizePending' = FALSE
    /\ renderer' = IF renderer.defined THEN [renderer EXCEPT !.disposed = TRUE]
                   ELSE renderer
    /\ UNCHANGED <<win, rect, scene, camera, animationId, pendingFrames, mouse,
                   selectedObject, cursor, lastEvent>>

Unmount ==
    /\ phase = "mounted"
    /\ phase' = "unmounted"
    /\ container' = FALSE
    /\ listeners' = {}
    /\ resizePending' = FALSE
    /\ pendingFrames' = pendingFrames \ {animationId}
    /\ renderer' = IF renderer.defined THEN [renderer EXCEPT !.disposed = TRUE]
                   ELSE renderer    \* renderer.dispose() on undefined: TypeError
    /\ UNCHANGED <<win, rect, scene, camera, animationId, mouse, selectedObject,
                   cursor, lastEvent>>

Next ==
    \/ \E bound \in BOOLEAN : Mount(bound)
    \/ \E size \in WindowSizes : WindowResize(size)
    \/ \E left \in 0..MaxOffset : SurfaceMoved(left)
    \/ handleResize
    \/ \E clientX \in ClientXs, clientY \in ClientYs : onPointerMove(clientX, clientY)
    \/ \E clientX \in ClientXs, clientY \in ClientYs, drag \in BOOLEAN :
           onClick(clientX, clientY, drag)
    \/ \E id \in pendingFrames, view \in Views : animate(id, view)
    \/ Unmount

Spec == Init /\ [][Next]_vars

-----------------------------------------------------------------------------
\* Properties.

\* The ray of a pick made now, and the pickable meshes it meets, read off the
\* geometry (independently of the order and the filter of getIntersects).
CurrentRay == setFromCamera(mouse, camera)
RawHits == intersectObjects(scene, CurrentRay)
Pick == IF camera.defined THEN getIntersects(mouse, camera, scene) ELSE <<>>
DistanceOf(i) == MeshDistance(scene[i].name, CurrentRay)
PickableHits ==
    IF camera.defined
    THEN {i \in 1..Len(scene) :
            /\ scene[i].isMesh
            /\ IsInteractable(scene[i].userData)
            /\ DistanceOf(i) > 0}
    ELSE {}
IsStructural(object) == object.name \in StructuralNames

\* While the last callback is a click, mouse, camera, scene and selectedObject
\* are as that click left them (only callbacks write them).
ClickHandled == lastEvent.type = "click"
MoveHandled == lastEvent.type = "mousemove"

ClickStep ==
    \E clientX \in ClientXs, clientY \in ClientYs, drag \in BOOLEAN :
        onClick(clientX, clientY, drag)

\* C1: whatever was selected before, a click whose pick hits pickable entity h
\* leaves the selection equal to h's template data.
C1_ClickHitSelects ==
    (ClickHandled /\ PickableHits # {}) =>
        /\ Len(Pick) > 0
        /\ Pick[1].object \in {scene[i] : i \in PickableHits}
        /\ selectedObject = Pick[1].object.userData

C1_Witness ==
    /\ ClickHandled
    /\ lastEvent.before # Null
    /\ selectedObject # Null
    /\ selectedObject # lastEvent.before

\* C2: whatever was selected before, a click whose pick hits no pickable entity
\* leaves the selection empty, a click that ends an orbit drag included.
C2_ClickMissDeselects ==
    (ClickHandled /\ PickableHits = {}) => selectedObject = Null

C2_Witness ==
    /\ ClickHandled
    /\ lastEvent.drag
    /\ ~lastEvent.threw
    /\ PickableHits = {}
    /\ lastEvent.before # Null
    /\ selectedObject = Null

\* C3: a click whose pick hits the entity already selected leaves it selected.
C3_ReclickKeepsSelection ==
    (/\ ClickHandled
     /\ lastEvent.before # Null
     /\ \E i \in PickableHits :
           /\ scene[i].userData = lastEvent.before
           /\ \A j \in PickableHits : DistanceOf(i) <= DistanceOf(j))
    => selectedObject = lastEvent.before

C3_Witness ==
    /\ ClickHandled
    /\ lastEvent.after = "click"
    /\ lastEvent.before # Null
    /\ selectedObject = lastEvent.before

\* C4: structural geometry (floor, walls) is never in the pick, never becomes the
\* selection and never raises the pointer cursor, also where it is the nearest
\* thing the ray meets; a ray that meets structural geometry only picks nothing.
C4_StructuralNeverPicked ==
    /\ selectedObject # EmptyUserData
    /\ camera.defined =>
         /\ \A k \in 1..Len(Pick) : ~IsStructural(Pick[k].object)
         /\ (\A k \in 1..Len(RawHits) : IsStructural(RawHits[k].object)) => Pick = <<>>
         /\ (ClickHandled /\ \A k \in 1..Len(RawHits) : IsStructural(RawHits[k].object))
                => selectedObject = Null
         /\ (MoveHandled /\ \A k \in 1..Len(RawHits) : IsStructural(RawHits[k].object))
                => cursor = "default"

C4_Witness ==
    /\ ClickHandled
    /\ camera.defined
    /\ Len(RawHits) > 1
    /\ IsStructural(RawHits[1].object)
    /\ selectedObject # Null
    /\ selectedObject = Pick[1].object.userData

\* C5: when the ray meets two or more pickable entities, the click commits one at
\* the smallest distance, wherever it stands in scene.children.
C5_NearestPickableWins ==
    (ClickHandled /\ Cardinality(PickableHits) >= 2) =>
        \E i \in PickableHits :
            /\ selectedObject = scene[i].userData
            /\ \A j \in PickableHits : DistanceOf(i) <= DistanceOf(j)

\* The committed entity was added to the scene after a farther one the ray meets.
C5_Witness ==
    /\ ClickHandled
    /\ \E i, j \in PickableHits :
          /\ i > j
          /\ DistanceOf(i) < DistanceOf(j)
          /\ selectedObject = scene[i].userData

\* C6: a click picks with the sample converted from the click's own position
\* against the rectangle current at the click.
C6_ClickUsesOwnPosition ==
    [][\A clientX \in ClientXs, clientY \in ClientYs, drag \in BOOLEAN :
          (onClick(clientX, clientY, drag) /\ camera.defined) =>
              mouse' = PointerSample(clientX, clientY, rect)]_vars

\* C7: only a click changes the selection; pointer-move, resize and frame
\* callbacks (and the host's own steps) leave it as it is.
C7_OnlyClickSelects ==
    [][(selectedObject' # selectedObject) => ClickStep]_vars

\* The pointer hovers over an entity other than the selected one.
C7_Witness ==
    /\ MoveHandled
    /\ cursor = "pointer"
    /\ selectedObject # Null
    /\ PickableHits # {}
    /\ \A i \in PickableHits : scene[i].userData # selectedObject

\* C8: no handler picks without a camera: while any listener is subscribed the
\* camera has been constructed, and no callback throws on an undefined camera.
C8_NoPickWithoutCamera ==
    /\ (listeners # {}) => camera.defined
    /\ ~lastEvent.threw

\* How the host shows document.body.style.cursor: 'pointer' as the pointing
\* hand, anything else this component leaves there ('default', or the unset '')
\* as the default arrow.
CursorAffordance == IF cursor = "pointer" THEN "pointer" ELSE "default"

\* C9: right after a pointer-move is handled the cursor affordance is 'pointer'
\* exactly when the pick for the stored sample and the camera meets a pickable
\* entity, and 'default' otherwise.
C9_CursorFollowsPick ==
    MoveHandled =>
        CursorAffordance = (IF PickableHits # {} THEN "pointer" ELSE "default")

C9_Witness ==
    /\ MoveHandled
    /\ cursor = "pointer"
    /\ PickableHits # {}
    /\ lastEvent.after = "mousemove"

\* C10: hover and click agree: a click handled right after a pointer-move, with
\* no callback between them, leaves the selection non-empty exactly when that
\* pointer-move set the cursor to 'pointer'.
C10_HoverClickAgree ==
    (ClickHandled /\ lastEvent.after = "mousemove") =>
        ((selectedObject # Null) <=> (cursor = "pointer"))

\* The click came at another position than the pointer-move before it.
C10_Witness ==
    /\ ClickHandled
    /\ lastEvent.after = "mousemove"
    /\ mouse # PointerSample(lastEvent.x, lastEvent.y, rect)
    /\ selectedObject # Null
    /\ cursor = "pointer"

MoveStep ==
    \E clientX \in ClientXs, clientY \in ClientYs : onPointerMove(clientX, clientY)

FrameStep == \E id \in pendingFrames, view \in Views : animate(id, view)

WindowAspect == Frac(win[1], win[2])

\* C11 as stated: once a resize event has been handled, no later pick and no
\* later frame tick observes an aspect other than the window's width / height
\* (here: the very next callback after a handled resize).
C11_NoStaleAspectEver ==
    [][(/\ lastEvent.type = "resize"
        /\ camera.defined
        /\ MoveStep \/ ClickStep \/ FrameStep)
       => camera.aspect = WindowAspect]_vars

\* C11 amended: handleResize brings aspect, projection and renderer size to the
\* window's in one handler, so a pick or frame tick made while no window resize
\* is still awaiting its resize event observes the window's aspect and size.
C11_AspectCurrentUnlessPending ==
    (phase = "mounted" /\ camera.defined /\ ~resizePending) =>
        /\ camera.aspect = WindowAspect
        /\ renderer.width = win[1]
        /\ renderer.height = win[2]

\* A pick right after a handled resize that changed the aspect set at mount.
C11_Witness ==
    /\ MoveHandled
    /\ lastEvent.after = "resize"
    /\ ~resizePending
    /\ camera.defined
    /\ camera.aspect = WindowAspect
    /\ rect.width # rect.height

\* -1 <= p <= 1 for a rational p.
InUnitRange(p) == -p[2] <= p[1] /\ p[1] <= p[2]

\* C12: every pointer sample onPointerMove computes has both normalized
\* coordinates within [-1, 1].
C12_SampleInRange ==
    InUnitRange(mouse.x) /\ InUnitRange(mouse.y)

ResizeStep == handleResize \/ \E size \in WindowSizes : WindowResize(size)

SelectedEntities == {i \in 1..Len(scene) : scene[i].userData = selectedObject}

\* C14: the selection is empty, or the template data of exactly one entity that
\* is in the scene and whose id is one of objectsData's; it is empty until the
\* first callback after the mount.
C14_SelectionIsOneEntity ==
    /\ lastEvent.type = "none" => selectedObject = Null
    /\ selectedObject # Null =>
          /\ Cardinality(SelectedEntities) = 1
          /\ \A i \in SelectedEntities : scene[i].isMesh /\ ~IsStructural(scene[i])
          /\ \E k \in 1..Len(objectsData) :
                /\ selectedObject.id = objectsData[k].id
                /\ selectedObject.name = objectsData[k].name

\* A selection that outlives the click that made it.
C14_Witness ==
    /\ selectedObject # Null
    /\ lastEvent.type = "frame"
    /\ Cardinality(SelectedEntities) = 1

\* What a click handled now would select on its own: the data of a nearest
\* pickable entity on the ray, or nothing.
ClickOutcomes ==
    IF PickableHits = {} THEN {Null}
    ELSE {scene[i].userData : i \in {h \in PickableHits :
                                       \A j \in PickableHits : DistanceOf(h) <= DistanceOf(j)}}

\* C15: most recent write wins: the selection starts empty, after a click it is
\* that click's own outcome whatever it was before, and after any other callback
\* it is what it was before the callback; so after any interleaving it is the
\* outcome of the last click handled.
C15_LastClickWins ==
    /\ lastEvent.type = "none" => selectedObject = Null
    /\ lastEvent.type = "click" => selectedObject \in ClickOutcomes
    /\ lastEvent.type \in {"mousemove", "frame", "resize"} => selectedObject = lastEvent.before

\* The selection of an earlier click, after a frame tick and a resize, with the
\* pointer now over nothing pickable.
C15_Witness ==
    /\ lastEvent.type = "resize"
    /\ lastEvent.after = "frame"
    /\ selectedObject # Null
    /\ PickableHits = {}

\* The pickable entities of the scene: its meshes tagged isInteractable.
PickableMeshes ==
    {i \in 1..Len(scene) : scene[i].isMesh /\ IsInteractable(scene[i].userData)}

\* C16: the pickable entities are fixed at scene initialization: whenever an
\* input handler is subscribed or a frame tick is pending, the scene holds
\* exactly one pickable mesh per entry of objectsData.
C16_PickablesFixedAtInit ==
    (listeners # {} \/ pendingFrames # {}) =>
        /\ Cardinality(PickableMeshes) = Len(objectsData)
        /\ \A k \in 1..Len(objectsData) :
              \E i \in PickableMeshes : scene[i].userData.id = objectsData[k].id

\* C17: structural geometry is filtered out before intersection testing: after
\* a handler has picked, every candidate it handed to the raycaster is tagged
\* pickable.
C17_OnlyPickablesTested ==
    ((ClickHandled \/ MoveHandled) /\ ~lastEvent.threw) =>
        \A i \in 1..Len(Candidates(scene)) :
            IsInteractable(Candidates(scene)[i].userData)

\* C18: once unmounted nothing of the component runs again: unmounting leaves
\* no listener subscribed and no frame pending, and no step taken after it
\* changes the selection, the pointer sample, the cursor or the camera, or is a
\* callback at all.
C18_NothingRunsAfterUnmount ==
    [][/\ phase' = "unmounted" => (listeners' = {} /\ pendingFrames' = {})
       /\ phase = "unmounted" =>
             /\ UNCHANGED <<selectedObject, mouse, cursor, camera>>
             /\ lastEvent' = lastEvent]_vars

\* Unmounted after a successful mount, a frame tick and a click that selected
\* an entity under a pointing cursor.
C18_Witness ==
    /\ phase = "unmounted"
    /\ renderer.defined /\ renderer.disposed
    /\ animationId > 1
    /\ selectedObject # Null
    /\ cursor = "pointer"

\* C19: between a successful mount and the unmount exactly one animation frame
\* is pending and animationId is its handle; after the unmount none is.
C19_OnePendingFrame ==
    /\ (phase = "mounted" /\ camera.defined) => pendingFrames = {animationId}
    /\ phase = "unmounted" => pendingFrames = {}

\* Mounted, after a frame tick has scheduled its successor.
C19_Witness ==
    /\ phase = "mounted"
    /\ lastEvent.type = "frame"
    /\ animationId > 1
    /\ pendingFrames = {animationId}

====
